---- MODULE Spec2Model ----
(***************************************************************************)
(* Model of the PDF keyword value estimator (src/main.py).                 *)
(*                                                                         *)
(* Two threads are modelled: the OCRWorker thread executing run() and the  *)
(* GUI thread executing the slots of KeywordEstimatorApp.  The worker's    *)
(* signals (progress, finished, error) are emitted in the worker thread    *)
(* and received by objects living in the GUI thread, so every emission is  *)
(* a queued connection: it appends one event to the GUI thread's event     *)
(* queue ("queue") and the slot runs later, when the GUI thread takes the  *)
(* event from the head of the queue.                                       *)
(*                                                                         *)
(* Text is a sequence of one-character strings.                            *)
(***************************************************************************)
EXTENDS Integers, Sequences, FiniteSets, TLC

(***************************************************************************)
(* Bounds of the model.                                                    *)
(***************************************************************************)
\* the work of one session: every run started counts for one, and every
\* page of its document for one more
MaxWork == 3

None == "None"

\* the value of a local of run() that has not been assigned
Unassigned == -1

(***************************************************************************)
(* Characters and strings.                                                 *)
(***************************************************************************)
NL == "\n"

Whitespace == {" ", NL}

Letters ==
    <<"a", "b", "c", "d", "e", "f", "g", "h", "i", "j", "k", "l", "m",
      "n", "o", "p", "q", "r", "s", "t", "u", "v", "w", "x", "y", "z">>

Capitals ==
    <<"A", "B", "C", "D", "E", "F", "G", "H", "I", "J", "K", "L", "M",
      "N", "O", "P", "Q", "R", "S", "T", "U", "V", "W", "X", "Y", "Z">>

Digits == <<"0", "1", "2", "3", "4", "5", "6", "7", "8", "9">>

\* c is one of the characters of s
IsIn(c, s) == \E i \in 1..Len(s) : s[i] = c

\* the place of c among the characters of s
IndexIn(c, s) == CHOOSE i \in 1..Len(s) : s[i] = c

\* str.lower() on one character
Lower(c) == IF IsIn(c, Capitals) THEN Letters[IndexIn(c, Capitals)] ELSE c

LowerStr(s) == [i \in 1..Len(s) |-> Lower(s[i])]

\* code point of a character (the order Python compares strings by)
Ord(c) ==
    CASE c = NL -> 10
      [] c = " " -> 32
      [] c = "+" -> 43
      [] c = "," -> 44
      [] c = "-" -> 45
      [] IsIn(c, Digits) -> 47 + IndexIn(c, Digits)
      [] IsIn(c, Capitals) -> 64 + IndexIn(c, Capitals)
      [] IsIn(c, Letters) -> 96 + IndexIn(c, Letters)
      [] OTHER -> 127

RECURSIVE LStrip(_)
LStrip(s) == IF s # <<>> /\ Head(s) \in Whitespace THEN LStrip(Tail(s)) ELSE s

RECURSIVE RStrip(_)
RStrip(s) ==
    IF s # <<>> /\ s[Len(s)] \in Whitespace
    THEN RStrip(SubSeq(s, 1, Len(s) - 1))
    ELSE s

\* str.strip()
Strip(s) == RStrip(LStrip(s))

\* s[i..] starts with the characters of k
MatchAt(s, i, k) ==
    /\ i + Len(k) - 1 <= Len(s)
    /\ \A j \in 1..Len(k) : s[i + j - 1] = k[j]

\* a slip: the scan resumes one character after the start of a match, so
\* overlapping occurrences are counted
RECURSIVE FindAllFrom_Overlapping(_, _, _)
FindAllFrom_Overlapping(s, i, k) ==
    IF i > Len(s) + 1 THEN 0
    ELSE IF k = <<>> THEN 1 + FindAllFrom_Overlapping(s, i + 1, k)
    ELSE IF MatchAt(s, i, k) THEN 1 + FindAllFrom_Overlapping(s, i + 1, k)
    ELSE FindAllFrom_Overlapping(s, i + 1, k)

\* len(pattern.findall(text)) for a pattern that is a literal: the scan goes
\* left to right and resumes after the end of each match; the empty pattern
\* matches once at every position, the end of the text included
RECURSIVE FindAllFrom(_, _, _)
FindAllFrom(s, i, k) ==
    IF i > Len(s) + 1 THEN 0
    ELSE IF k = <<>> THEN 1 + FindAllFrom(s, i + 1, k)
    ELSE IF MatchAt(s, i, k) THEN 1 + FindAllFrom(s, i + Len(k), k)
    ELSE FindAllFrom(s, i + 1, k)

\* re.compile(re.escape(keyword), re.IGNORECASE).findall(text), counted
FindAllCount(text, keyword) == FindAllFrom(LowerStr(text), 1, LowerStr(keyword))

\* int(value_text) for a stripped, non-empty text: an optional sign followed
\* by at least one decimal digit; anything else raises ValueError
DigitVal(c) == IF IsIn(c, Digits) THEN IndexIn(c, Digits) - 1 ELSE -1

RECURSIVE DigitsVal(_)
DigitsVal(s) ==
    IF s = <<>> THEN 0 ELSE 10 * DigitsVal(SubSeq(s, 1, Len(s) - 1)) + DigitVal(s[Len(s)])

AllDigits(s) == s # <<>> /\ \A i \in 1..Len(s) : DigitVal(s[i]) >= 0

ParseInt(s) ==
    IF s # <<>> /\ Head(s) = "-" /\ AllDigits(Tail(s))
        THEN [ok |-> TRUE, val |-> 0 - DigitsVal(Tail(s))]
    ELSE IF s # <<>> /\ Head(s) = "+" /\ AllDigits(Tail(s))
        THEN [ok |-> TRUE, val |-> DigitsVal(Tail(s))]
    ELSE IF AllDigits(s)
        THEN [ok |-> TRUE, val |-> DigitsVal(s)]
    ELSE [ok |-> FALSE, val |-> 0]

\* a < b for strings, by code point, as Python compares str
RECURSIVE StrLess(_, _)
StrLess(a, b) ==
    IF b = <<>> THEN FALSE
    ELSE IF a = <<>> THEN TRUE
    ELSE IF Ord(Head(a)) # Ord(Head(b)) THEN Ord(Head(a)) < Ord(Head(b))
    ELSE StrLess(Tail(a), Tail(b))

\* the sort key of display_results and export_to_excel: x[0].lower()
SortKey(x) == LowerStr(x[1])

\* a slip: x goes before the elements with an equal key (not stable)
RECURSIVE InsertSorted_BeforeEqual(_, _)
InsertSorted_BeforeEqual(x, s) ==
    IF s = <<>> THEN <<x>>
    ELSE IF ~StrLess(SortKey(Head(s)), SortKey(x)) THEN <<x>> \o s
    ELSE <<Head(s)>> \o InsertSorted_BeforeEqual(x, Tail(s))

\* insertion of x into an already sorted sequence after every element whose
\* key is not greater (sorted() is stable)
RECURSIVE InsertSorted(_, _)
InsertSorted(x, s) ==
    IF s = <<>> THEN <<x>>
    ELSE IF StrLess(SortKey(x), SortKey(Head(s))) THEN <<x>> \o s
    ELSE <<Head(s)>> \o InsertSorted(x, Tail(s))

\* sorted(results, key=lambda x: x[0].lower())
RECURSIVE Sorted(_)
Sorted(results) ==
    IF results = <<>> THEN <<>>
    ELSE InsertSorted(results[Len(results)], Sorted(SubSeq(results, 1, Len(results) - 1)))

(***************************************************************************)
(* Documents.  A document is the sequence of its pages; a page is what the *)
(* renderer and the recognizer make of it: no image at all, or an image    *)
(* with some text.                                                         *)
(***************************************************************************)
PageKinds == {"noimage", "words"}

\* a document of one page whose image holds no readable text
BlankDoc == <<"blank">>

Docs == UNION {[1..n -> PageKinds] : n \in 0..(MaxWork - 1)} \cup {BlankDoc}

\* pytesseract.image_to_string(image) for a page that has an image
PageText(kind) ==
    IF kind = "words" THEN <<"a", "B", " ">>
    ELSE IF kind = "blank" THEN <<" ">>
    ELSE <<>>

(***************************************************************************)
(* Contents of keywords.csv the session can start with: rows of (keyword   *)
(* text, value text); an empty cell is the empty text.                     *)
(***************************************************************************)
Files ==
    { << <<(<<"a", "b">>), (<<"3">>)>>,
         <<(<<" ", "B">>), (<<"-", "5", " ">>)>>,
         <<(<<"c">>), (<<"a">>)>> >>,
      << <<(<<" ", "c">>), (<<"a">>)>> >>,
      <<>> }

(***************************************************************************)
(* State.  Every run has its own OCRWorker object and thread; the fields   *)
(* and locals of the workers are functions of the run number.              *)
(***************************************************************************)
VARIABLES
    pdf_path,        \* KeywordEstimatorApp.pdf_path: the selected document or None
    keywords_table,  \* the rows of the keywords table widget
    keywords_file,   \* the rows of keywords.csv
    run,             \* number of runs started; self.ocr_worker is the worker of run "run"
    pc,              \* pc[r]: where the worker thread of run r is in OCRWorker.run
    wdoc,            \* wdoc[r]: OCRWorker.pdf_path, the document the worker reads
    wkeywords,       \* wkeywords[r]: the keywords bound into the finished connection
    total_pages,     \* total_pages[r]: local of run()
    page_num,        \* page_num[r]: local of run()
    text,            \* text[r]: local of run(), the accumulator
    queue,           \* queued signal emissions not yet handled by the GUI thread
    progress_dialog, \* self.progress_dialog: None or [value, open]
    extracted_text,  \* contents of the extracted text preview
    current_results, \* self.current_results
    results_table,   \* rows of the results table, the total row included
    export_enabled,  \* enabled state of the export button
    message,         \* the last message box shown
    calls,           \* history: calls[r], the render/recognize calls of run r
    emitted,         \* history: emitted[r], the signals emitted by the worker of run r
    observed,        \* history: what the GUI thread has handled, all runs
    work_started,    \* history: the work of the runs started so far
    cancelAt,        \* history: cancelAt[r], the worker's position when run r was cancelled
    call,            \* a method of KeywordEstimatorApp called on its own: arguments and result
    workbook         \* the rows of the worksheet saved by the last export

vars == <<pdf_path, keywords_table, keywords_file, run, pc, wdoc, wkeywords,
          total_pages, page_num, text, queue, progress_dialog, extracted_text,
          current_results, results_table, export_enabled, message,
          calls, emitted, observed, work_started, cancelAt, call, workbook>>

\* what the worker thread leaves alone
guiVars == <<pdf_path, keywords_table, keywords_file, run, wdoc, wkeywords,
             progress_dialog, extracted_text, current_results, results_table,
             export_enabled, message, observed, work_started, cancelAt, call, workbook>>

Runs == 1..MaxWork

\* QThread.isRunning(): from start() until run() has returned or the thread
\* has been terminated
IsRunning(r) == pc[r] \notin {"none", "done", "terminated"}

(***************************************************************************)
(* Progress arithmetic of OCRWorker.run.                                   *)
(***************************************************************************)
\* int((p / n) * 90) in double arithmetic: the floor of 90p/n, except where
\* the rounded quotient p/n falls below the exact one and the product just
\* misses an integer (for n < 20 this happens only for 7/10)
FloatDeficit == {<<7, 10>>}

\* a slip: the pages are given the whole scale instead of 90 points of it
IntScale90_Hundred(p, n) == ((100 * p) \div n) - (IF <<p, n>> \in FloatDeficit THEN 1 ELSE 0)

IntScale90(p, n) == ((90 * p) \div n) - (IF <<p, n>> \in FloatDeficit THEN 1 ELSE 0)

\* progress_percent = 5 + int(((page_num - 1) / total_pages) * 90)
ProgressPercent(p, n) == 5 + IntScale90(p - 1, n)

\* a slip: the tenth of the page's share taken of 100 instead of 90
ConversionProgress_TenPercent(p, n) == ProgressPercent(p, n) + (10 \div n)

\* conversion_progress = progress_percent + int((1 / total_pages) * 9)
ConversionProgress(p, n) == ProgressPercent(p, n) + (9 \div n)

\* a slip: the recognition event computed from the page before
OcrProgress_PreviousPage(p, n) == 5 + IntScale90(p - 1, n)

\* ocr_progress = 5 + int((page_num / total_pages) * 90)
OcrProgress(p, n) == 5 + IntScale90(p, n)

(***************************************************************************)
(* Signals.  Every emission is one event; an event carries the run whose   *)
(* worker emitted it and, for finished, the keywords that the connection   *)
(* made for that run passes to on_ocr_finished.                            *)
(***************************************************************************)
ProgressEvent(r, kind, page, percent) ==
    [run |-> r, sig |-> "progress", kind |-> kind, page |-> page,
     percent |-> percent, text |-> <<>>, reason |-> None, keywords |-> <<>>]

FinishedEvent(r, t) ==
    [run |-> r, sig |-> "finished", kind |-> "finished", page |-> 0,
     percent |-> 0, text |-> t, reason |-> None, keywords |-> wkeywords[r]]

ErrorEvent(r, reason) ==
    [run |-> r, sig |-> "error", kind |-> "error", page |-> 0,
     percent |-> 0, text |-> <<>>, reason |-> reason, keywords |-> <<>>]

Emit(r, ev) ==
    /\ queue' = Append(queue, ev)
    /\ emitted' = [emitted EXCEPT ![r] = Append(@, ev)]

Goto(r, label) == pc' = [pc EXCEPT ![r] = label]

Call(r, kind, result) == calls' = [calls EXCEPT ![r] = Append(@, <<kind, page_num[r], result>>)]

(***************************************************************************)
(* The worker thread of run r: OCRWorker.run, one action per emission and  *)
(* per blocking call.                                                      *)
(***************************************************************************)
\* self.progress.emit(0, "Opening PDF and counting pages...")
EmitOpening(r) ==
    /\ pc[r] = "emit0"
    /\ Emit(r, ProgressEvent(r, "opening", 0, 0))
    /\ Goto(r, "open")
    /\ UNCHANGED <<total_pages, page_num, text, calls>>
    /\ UNCHANGED guiVars

\* doc = fitz.open(self.pdf_path); total_pages = doc.page_count; doc.close()
OpenDoc(r) ==
    /\ pc[r] = "open"
    /\ total_pages' = [total_pages EXCEPT ![r] = Len(wdoc[r])]
    /\ Goto(r, "check")
    /\ UNCHANGED <<page_num, text, queue, calls, emitted>>
    /\ UNCHANGED guiVars

\* fitz.open raises: except Exception -> self.error.emit("OCR Error: ...")
OpenDocFails(r) ==
    /\ pc[r] = "open"
    /\ Emit(r, ErrorEvent(r, "OCR Error"))
    /\ Goto(r, "returning")
    /\ UNCHANGED <<total_pages, page_num, text, calls>>
    /\ UNCHANGED guiVars

\* a slip: no check for a document without pages, the loop runs over the
\* empty range and the run completes
EmptyDocument_Ignored(r) ==
    /\ pc[r] = "check"
    /\ total_pages[r] = 0
    /\ Emit(r, ProgressEvent(r, "found", 0, 5))
    /\ text' = [text EXCEPT ![r] = <<>>]
    /\ Goto(r, "emit100")
    /\ UNCHANGED <<total_pages, page_num, calls>>
    /\ UNCHANGED guiVars

\* if total_pages == 0: self.error.emit("No pages found in PDF"); return
EmptyDocument(r) ==
    /\ pc[r] = "check"
    /\ total_pages[r] = 0
    /\ Emit(r, ErrorEvent(r, "No pages found in PDF"))
    /\ Goto(r, "returning")
    /\ UNCHANGED <<total_pages, page_num, text, calls>>
    /\ UNCHANGED guiVars

\* self.progress.emit(5, "Found ... page(s)"); text = ""; first iteration
EmitFound(r) ==
    /\ pc[r] = "check"
    /\ total_pages[r] # 0
    /\ Emit(r, ProgressEvent(r, "found", 0, 5))
    /\ text' = [text EXCEPT ![r] = <<>>]
    /\ page_num' = [page_num EXCEPT ![r] = 1]
    /\ Goto(r, "conv")
    /\ UNCHANGED <<total_pages, calls>>
    /\ UNCHANGED guiVars

\* self.progress.emit(conversion_progress, "Converting page ...")
EmitConverting(r) ==
    /\ pc[r] = "conv"
    /\ Emit(r, ProgressEvent(r, "conv", page_num[r],
                             ConversionProgress(page_num[r], total_pages[r])))
    /\ Goto(r, "render")
    /\ UNCHANGED <<total_pages, page_num, text, calls>>
    /\ UNCHANGED guiVars

\* a slip: the loop does not advance to the next page
NextPage_Repeat(r) ==
    IF page_num[r] < total_pages[r]
    THEN /\ page_num' = page_num
         /\ Goto(r, "conv")
    ELSE /\ page_num' = page_num
         /\ Goto(r, "emit100")

\* the for statement takes the next page_num of range(1, total_pages + 1),
\* or the loop ends
NextPage(r) ==
    IF page_num[r] < total_pages[r]
    THEN /\ page_num' = [page_num EXCEPT ![r] = @ + 1]
         /\ Goto(r, "conv")
    ELSE /\ page_num' = page_num
         /\ Goto(r, "emit100")

\* images = convert_from_path(...) returns the image of the page
RenderImage(r) ==
    /\ pc[r] = "render"
    /\ wdoc[r][page_num[r]] # "noimage"
    /\ Call(r, "render", "image")
    /\ Goto(r, "ocr")
    /\ UNCHANGED <<total_pages, page_num, text, queue, emitted>>
    /\ UNCHANGED guiVars

\* a slip: no check for an empty image list, the page goes on to recognition
RenderNoImage_Recognized(r) ==
    /\ pc[r] = "render"
    /\ wdoc[r][page_num[r]] = "noimage"
    /\ Call(r, "render", "none")
    /\ Goto(r, "ocr")
    /\ UNCHANGED <<total_pages, page_num, text, queue, emitted>>
    /\ UNCHANGED guiVars

\* images = convert_from_path(...) is empty: continue
RenderNoImage(r) ==
    /\ pc[r] = "render"
    /\ wdoc[r][page_num[r]] = "noimage"
    /\ Call(r, "render", "none")
    /\ NextPage(r)
    /\ UNCHANGED <<total_pages, text, queue, emitted>>
    /\ UNCHANGED guiVars

\* convert_from_path raises: except Exception -> self.error.emit(...)
RenderFails(r) ==
    /\ pc[r] = "render"
    /\ Call(r, "render", "error")
    /\ Emit(r, ErrorEvent(r, "OCR Error"))
    /\ Goto(r, "returning")
    /\ UNCHANGED <<total_pages, page_num, text>>
    /\ UNCHANGED guiVars

\* self.progress.emit(ocr_progress, "Extracting text from page ...")
EmitExtracting(r) ==
    /\ pc[r] = "ocr"
    /\ Emit(r, ProgressEvent(r, "ocr", page_num[r],
                             OcrProgress(page_num[r], total_pages[r])))
    /\ Goto(r, "recognize")
    /\ UNCHANGED <<total_pages, page_num, text, calls>>
    /\ UNCHANGED guiVars

\* a slip: the text of the page is appended without the newline
Recognize_NoSeparator(r) ==
    /\ pc[r] = "recognize"
    /\ Call(r, "recognize", "text")
    /\ text' = [text EXCEPT ![r] = @ \o PageText(wdoc[r][page_num[r]])]
    /\ NextPage(r)
    /\ UNCHANGED <<total_pages, queue, emitted>>
    /\ UNCHANGED guiVars

\* page_text = pytesseract.image_to_string(image); text += page_text + "\n"
Recognize(r) ==
    /\ pc[r] = "recognize"
    /\ Call(r, "recognize", "text")
    /\ text' = [text EXCEPT ![r] = @ \o PageText(wdoc[r][page_num[r]]) \o <<NL>>]
    /\ NextPage(r)
    /\ UNCHANGED <<total_pages, queue, emitted>>
    /\ UNCHANGED guiVars

\* a slip: the error of one page is swallowed and the loop goes on
RecognizeFails_Swallowed(r) ==
    /\ pc[r] = "recognize"
    /\ Call(r, "recognize", "error")
    /\ NextPage(r)
    /\ UNCHANGED <<total_pages, text, queue, emitted>>
    /\ UNCHANGED guiVars

\* image_to_string raises: except Exception -> self.error.emit(...)
RecognizeFails(r) ==
    /\ pc[r] = "recognize"
    /\ Call(r, "recognize", "error")
    /\ Emit(r, ErrorEvent(r, "OCR Error"))
    /\ Goto(r, "returning")
    /\ UNCHANGED <<total_pages, page_num, text>>
    /\ UNCHANGED guiVars

\* self.progress.emit(100, "OCR complete!")
EmitComplete(r) ==
    /\ pc[r] = "emit100"
    /\ Emit(r, ProgressEvent(r, "complete", 0, 100))
    /\ Goto(r, "emit_finished")
    /\ UNCHANGED <<total_pages, page_num, text, calls>>
    /\ UNCHANGED guiVars

\* self.finished.emit(text)
EmitFinished(r) ==
    /\ pc[r] = "emit_finished"
    /\ Emit(r, FinishedEvent(r, text[r]))
    /\ Goto(r, "returning")
    /\ UNCHANGED <<total_pages, page_num, text, calls>>
    /\ UNCHANGED guiVars

\* run() returns and the thread ends: isRunning() becomes false
Return(r) ==
    /\ pc[r] = "returning"
    /\ Goto(r, "done")
    /\ UNCHANGED <<total_pages, page_num, text, queue, calls, emitted>>
    /\ UNCHANGED guiVars

(***************************************************************************)
(* Keywords and results.                                                   *)
(***************************************************************************)
\* self.keywords_table.setRowCount(5): the table starts with 5 empty rows
InitialRows == 5

EmptyTable == [i \in 1..InitialRows |-> <<(<<>>), (<<>>)>>]

\* load_keywords: a missing or empty file leaves the table as it is
LoadKeywords(file, table) == IF file = <<>> THEN table ELSE file

\* keywords[keyword] = value on a dict kept as a sequence of <<key, value>>:
\* an existing key keeps its place and takes the new value
DictSet(d, k, v) ==
    IF \E i \in 1..Len(d) : d[i][1] = k
    THEN [i \in 1..Len(d) |-> IF d[i][1] = k THEN <<k, v>> ELSE d[i]]
    ELSE Append(d, <<k, v>>)

\* the row takes part: both cells hold text that is not empty once stripped
RowFilled(row) == Strip(row[1]) # <<>> /\ Strip(row[2]) # <<>>

\* a slip: the ValueError is not caught row by row, the rows after the
\* first invalid value are not read
RECURSIVE GetKeywordsFromTable_StopAtInvalid(_)
GetKeywordsFromTable_StopAtInvalid(table) ==
    IF table = <<>> THEN <<>>
    ELSE LET row == Head(table)
             rest == GetKeywordsFromTable_StopAtInvalid(Tail(table))
         IN IF ~RowFilled(row) THEN rest
            ELSE IF ~ParseInt(Strip(row[2])).ok THEN <<>>
            ELSE IF \E i \in 1..Len(rest) : rest[i][1] = Strip(row[1])
                 THEN rest
                 ELSE << <<Strip(row[1]), ParseInt(Strip(row[2])).val>> >> \o rest

\* get_keywords_from_table: the dict built from the rows
RECURSIVE GetKeywordsFromTable(_)
GetKeywordsFromTable(table) ==
    IF table = <<>> THEN <<>>
    ELSE LET before == GetKeywordsFromTable(SubSeq(table, 1, Len(table) - 1))
             row == table[Len(table)]
         IN IF RowFilled(row) /\ ParseInt(Strip(row[2])).ok
            THEN DictSet(before, Strip(row[1]), ParseInt(Strip(row[2])).val)
            ELSE before

\* get_keywords_from_table showed the "Invalid Value" warning for some row
InvalidValueWarned(table) ==
    \E i \in 1..Len(table) : RowFilled(table[i]) /\ ~ParseInt(Strip(table[i][2])).ok

\* save_keywords: the rows written to keywords.csv
RECURSIVE SavedRows(_)
SavedRows(table) ==
    IF table = <<>> THEN <<>>
    ELSE LET row == Head(table)
         IN (IF RowFilled(row) THEN << <<Strip(row[1]), Strip(row[2])>> >> ELSE <<>>)
            \o SavedRows(Tail(table))

\* a slip: the subtotal is the count, the value is forgotten
CountKeywords_ValueForgotten(t, keywords) ==
    [i \in 1..Len(keywords) |->
        LET count == FindAllCount(t, keywords[i][1])
        IN <<keywords[i][1], count, keywords[i][2], count>>]

\* count_keywords: one (keyword, count, value, subtotal) per dict entry
CountKeywords(t, keywords) ==
    [i \in 1..Len(keywords) |->
        LET count == FindAllCount(t, keywords[i][1])
        IN <<keywords[i][1], count, keywords[i][2], count * keywords[i][2]>>]

\* a slip: the counts are added up instead of the subtotals
RECURSIVE GrandTotal_Counts(_)
GrandTotal_Counts(results) ==
    IF results = <<>> THEN 0 ELSE results[1][2] + GrandTotal_Counts(Tail(results))

\* display_results: grand_total += subtotal over the results
RECURSIVE GrandTotal(_)
GrandTotal(results) ==
    IF results = <<>> THEN 0 ELSE results[1][4] + GrandTotal(Tail(results))

\* display_results: the rows put into the results table; a cell shows the
\* decimal text of the number held here
ResultsTable(results) ==
    [rows |-> Sorted(results), has_total |-> TRUE, total |-> GrandTotal(results)]

\* display_extracted_text: max_chars = 5000
max_chars == 5000

TruncationNote == <<"n", "o", "t", "e">>

DisplayText(t) ==
    IF Len(t) > max_chars THEN SubSeq(t, 1, max_chars) \o TruncationNote ELSE t

(***************************************************************************)
(* The GUI thread: the slots of KeywordEstimatorApp.  The progress dialog  *)
(* is window-modal: while it is open the main window takes no input.       *)
(***************************************************************************)
NoPath == <<>>

NoResults == <<>>

DialogOpen == progress_dialog.exists /\ progress_dialog.open

guiWorkerVars == <<total_pages, page_num, text, calls, emitted>>

\* the work of a run on document d
Work(d) == 1 + Len(d)

\* browse_pdf: the user picks a document (one that the work left in the
\* session allows a run on)
browse_pdf ==
    /\ ~DialogOpen
    /\ \E d \in Docs :
          /\ work_started + Work(d) <= MaxWork
          /\ pdf_path' = <<d>>
    /\ UNCHANGED <<keywords_table, keywords_file, run, pc, wdoc, wkeywords,
                   queue, progress_dialog, extracted_text, current_results,
                   results_table, export_enabled, message, observed, cancelAt,
                   work_started, call, workbook>>
    /\ UNCHANGED guiWorkerVars

\* A run is over when its thread has stopped and none of its signals is
\* left in the queue: nothing of it can happen any more.
Over(r) ==
    /\ r \in 1..run
    /\ ~IsRunning(r)
    /\ \A i \in 1..Len(queue) : queue[i].run # r

\* The worker of run r is settled when its thread has stopped, or has
\* nothing left to do but return, and none of its signals is left in the
\* queue.  The history kept for a settled run is dropped when the next run
\* starts.
Settled(r) ==
    /\ r \in 1..run
    /\ pc[r] \in {"returning", "done", "terminated"}
    /\ \A i \in 1..Len(queue) : queue[i].run # r

Forget(f, initial) == [r \in Runs |-> IF Settled(r) THEN initial ELSE f[r]]

NotCancelled == [requested |-> FALSE, pc |-> "none", calls |-> 0, emitted |-> 0]

\* no method has been called on its own
NoCall ==
    [have |-> "nothing", fn |-> None, text |-> <<>>, keywords |-> <<>>, results |-> <<>>]

MessageAfterWarning(table) ==
    IF InvalidValueWarned(table) THEN "Invalid Value" ELSE message

\* a slip: the keywords are saved before the selection and the keywords are
\* checked
calculate_total_SaveFirst ==
    /\ ~DialogOpen
    /\ LET keywords == GetKeywordsFromTable(keywords_table)
       IN IF pdf_path = NoPath
          THEN /\ message' = "No PDF Selected"
               /\ keywords_file' = SavedRows(keywords_table)
               /\ UNCHANGED <<run, pc, wdoc, wkeywords,
                              progress_dialog, cancelAt, observed, work_started>>
               /\ UNCHANGED guiWorkerVars
          ELSE IF keywords = <<>>
          THEN /\ message' = "No Keywords"
               /\ keywords_file' = SavedRows(keywords_table)
               /\ UNCHANGED <<run, pc, wdoc, wkeywords,
                              progress_dialog, cancelAt, observed, work_started>>
               /\ UNCHANGED guiWorkerVars
          ELSE /\ work_started + Work(pdf_path[1]) <= MaxWork
               /\ work_started' = work_started + Work(pdf_path[1])
               /\ message' = MessageAfterWarning(keywords_table)
               /\ keywords_file' = SavedRows(keywords_table)
               /\ progress_dialog' = [exists |-> TRUE, value |-> 0, open |-> TRUE]
               /\ run' = run + 1
               /\ wdoc' = [Forget(wdoc, <<>>) EXCEPT ![run + 1] = pdf_path[1]]
               /\ wkeywords' = [Forget(wkeywords, <<>>) EXCEPT ![run + 1] = keywords]
               /\ pc' = [Forget(pc, "none") EXCEPT ![run + 1] = "emit0"]
               /\ total_pages' = Forget(total_pages, Unassigned)
               /\ page_num' = Forget(page_num, Unassigned)
               /\ text' = Forget(text, <<>>)
               /\ calls' = Forget(calls, <<>>)
               /\ emitted' = Forget(emitted, <<>>)
               /\ cancelAt' = Forget(cancelAt, NotCancelled)
               /\ observed' = SelectSeq(observed, LAMBDA e : ~Settled(e.run))
    /\ UNCHANGED <<pdf_path, keywords_table, queue, extracted_text,
                   current_results, results_table, export_enabled, call, workbook>>

\* calculate_total, with get_keywords_from_table, save_keywords and
\* extract_text_with_ocr
calculate_total ==
    /\ ~DialogOpen
    /\ LET keywords == GetKeywordsFromTable(keywords_table)
       IN IF pdf_path = NoPath
          THEN /\ message' = "No PDF Selected"
               /\ UNCHANGED <<keywords_file, run, pc, wdoc, wkeywords,
                              progress_dialog, cancelAt, observed, work_started>>
               /\ UNCHANGED guiWorkerVars
          ELSE IF keywords = <<>>
          THEN /\ message' = "No Keywords"
               /\ UNCHANGED <<keywords_file, run, pc, wdoc, wkeywords,
                              progress_dialog, cancelAt, observed, work_started>>
               /\ UNCHANGED guiWorkerVars
          ELSE /\ work_started + Work(pdf_path[1]) <= MaxWork
               /\ work_started' = work_started + Work(pdf_path[1])
               /\ message' = MessageAfterWarning(keywords_table)
               /\ keywords_file' = SavedRows(keywords_table)
               /\ progress_dialog' = [exists |-> TRUE, value |-> 0, open |-> TRUE]
               /\ run' = run + 1
               /\ wdoc' = [Forget(wdoc, <<>>) EXCEPT ![run + 1] = pdf_path[1]]
               /\ wkeywords' = [Forget(wkeywords, <<>>) EXCEPT ![run + 1] = keywords]
               /\ pc' = [Forget(pc, "none") EXCEPT ![run + 1] = "emit0"]
               /\ total_pages' = Forget(total_pages, Unassigned)
               /\ page_num' = Forget(page_num, Unassigned)
               /\ text' = Forget(text, <<>>)
               /\ calls' = Forget(calls, <<>>)
               /\ emitted' = Forget(emitted, <<>>)
               /\ cancelAt' = Forget(cancelAt, NotCancelled)
               /\ observed' = SelectSeq(observed, LAMBDA e : ~Settled(e.run))
    /\ UNCHANGED <<pdf_path, keywords_table, queue, extracted_text,
                   current_results, results_table, export_enabled, call, workbook>>

\* the event at the head of the queue is the last thing left of an earlier
\* run: its thread has stopped and no other signal of it is queued
LastOf(e) ==
    /\ e.run < run
    /\ pc[e.run] \in {"returning", "done", "terminated"}
    /\ \A i \in 2..Len(queue) : queue[i].run # e.run

Release(f, initial, e) == IF LastOf(e) THEN [f EXCEPT ![e.run] = initial] ELSE f

\* the GUI thread takes the event e from the queue and handles it; the
\* worker of an earlier run of which nothing is left is released, and the
\* history kept for that run with it
Handled(e) ==
    /\ queue' = Tail(queue)
    /\ observed' = IF LastOf(e)
                   THEN SelectSeq(observed, LAMBDA o : o.run # e.run)
                   ELSE Append(observed, e)
    /\ pc' = Release(pc, "none", e)
    /\ wdoc' = Release(wdoc, <<>>, e)
    /\ wkeywords' = Release(wkeywords, <<>>, e)
    /\ total_pages' = Release(total_pages, Unassigned, e)
    /\ page_num' = Release(page_num, Unassigned, e)
    /\ text' = Release(text, <<>>, e)
    /\ calls' = Release(calls, <<>>, e)
    /\ emitted' = Release(emitted, <<>>, e)
    /\ cancelAt' = Release(cancelAt, NotCancelled, e)

\* on_ocr_progress, run for the progress event at the head of the queue
on_ocr_progress ==
    /\ queue # <<>>
    /\ Head(queue).sig = "progress"
    /\ Handled(Head(queue))
    /\ progress_dialog' =
          IF progress_dialog.exists
          THEN [progress_dialog EXCEPT !.value = Head(queue).percent]
          ELSE progress_dialog
    /\ UNCHANGED <<pdf_path, keywords_table, keywords_file, run,
                   extracted_text, current_results, results_table,
                   export_enabled, message, work_started, call, workbook>>

\* a slip: the text is counted without looking whether it is blank
on_ocr_finished_AlwaysCounts ==
    /\ queue # <<>>
    /\ Head(queue).sig = "finished"
    /\ Handled([Head(queue) EXCEPT !.kind =
                   IF Strip(Head(queue).text) = <<>> THEN "returned" ELSE "counted"])
    /\ progress_dialog' =
          IF progress_dialog.exists
          THEN [progress_dialog EXCEPT !.open = FALSE]
          ELSE progress_dialog
    /\ IF FALSE
       THEN /\ message' = "No Text Found"
            /\ UNCHANGED <<extracted_text, current_results, results_table,
                           export_enabled>>
       ELSE LET results == CountKeywords(Head(queue).text, Head(queue).keywords)
            IN /\ extracted_text' = DisplayText(Head(queue).text)
               /\ current_results' = <<results>>
               /\ results_table' = ResultsTable(results)
               /\ export_enabled' = TRUE
               /\ UNCHANGED message
    /\ UNCHANGED <<pdf_path, keywords_table, keywords_file, run,
                   work_started, call, workbook>>

\* on_ocr_finished(text, keywords), run for the finished event at the head
\* of the queue, with display_extracted_text, count_keywords, display_results;
\* the history tells whether the slot returned early or went on to count
on_ocr_finished ==
    /\ queue # <<>>
    /\ Head(queue).sig = "finished"
    /\ Handled([Head(queue) EXCEPT !.kind =
                   IF Strip(Head(queue).text) = <<>> THEN "returned" ELSE "counted"])
    /\ progress_dialog' =
          IF progress_dialog.exists
          THEN [progress_dialog EXCEPT !.open = FALSE]
          ELSE progress_dialog
    /\ IF Strip(Head(queue).text) = <<>>
       THEN /\ message' = "No Text Found"
            /\ UNCHANGED <<extracted_text, current_results, results_table,
                           export_enabled>>
       ELSE LET results == CountKeywords(Head(queue).text, Head(queue).keywords)
            IN /\ extracted_text' = DisplayText(Head(queue).text)
               /\ current_results' = <<results>>
               /\ results_table' = ResultsTable(results)
               /\ export_enabled' = TRUE
               /\ UNCHANGED message
    /\ UNCHANGED <<pdf_path, keywords_table, keywords_file, run,
                   work_started, call, workbook>>

\* on_ocr_error, run for the error event at the head of the queue
on_ocr_error ==
    /\ queue # <<>>
    /\ Head(queue).sig = "error"
    /\ Handled(Head(queue))
    /\ progress_dialog' =
          IF progress_dialog.exists
          THEN [progress_dialog EXCEPT !.open = FALSE]
          ELSE progress_dialog
    /\ message' = "OCR Error"
    /\ UNCHANGED <<pdf_path, keywords_table, keywords_file, run,
                   extracted_text, current_results, results_table,
                   export_enabled, work_started, call, workbook>>

CanceledEvent(r, kind) ==
    [run |-> r, sig |-> "canceled", kind |-> kind, page |-> 0,
     percent |-> 0, text |-> <<>>, reason |-> None, keywords |-> <<>>]

\* on_ocr_canceled, run when the user presses Cancel in the progress dialog
\* (which hides the dialog): terminate() and wait() when the worker is
\* running.  terminate() stops the thread wherever it is; what the thread
\* did between terminate() and the return of wait() cannot be told from
\* its having done it just before the slot ran, so the worker stops here.
on_ocr_canceled ==
    /\ DialogOpen
    /\ progress_dialog' = [progress_dialog EXCEPT !.open = FALSE]
    /\ pc' = IF IsRunning(run) THEN [pc EXCEPT ![run] = "terminated"] ELSE pc
    /\ observed' = Append(observed,
          CanceledEvent(run, IF IsRunning(run) THEN "terminated" ELSE "not running"))
    /\ cancelAt' = [cancelAt EXCEPT ![run] =
          [requested |-> TRUE, pc |-> pc[run],
           calls |-> Len(calls[run]), emitted |-> Len(emitted[run])]]
    /\ UNCHANGED <<pdf_path, keywords_table, keywords_file, run, wdoc,
                   wkeywords, queue, extracted_text, current_results,
                   results_table, export_enabled, message, work_started, call, workbook>>
    /\ UNCHANGED guiWorkerVars

\* no worksheet has been saved
NoWorkbook == <<>>

\* headers = ["Keyword", "Count", "Value", "Subtotal"]
headers == <<"Keyword", "Count", "Value", "Subtotal">>

\* grand_total = 0; for ... in sorted_results: grand_total += subtotal
RECURSIVE RunningTotal(_)
RunningTotal(rows) ==
    IF rows = <<>> THEN 0 ELSE Head(rows)[4] + RunningTotal(Tail(rows))

\* a slip: the rows are written in the order of current_results
Worksheet_Unsorted(results) ==
    <<headers>> \o results \o << <<"GRAND TOTAL", "", "", RunningTotal(results)>> >>

\* the rows appended to the worksheet: the headers, the results sorted by
\* the lower-cased keyword, the total row
Worksheet(results) ==
    LET sorted_results == Sorted(results)
    IN <<headers>> \o sorted_results
       \o << <<"GRAND TOTAL", "", "", RunningTotal(sorted_results)>> >>

\* export_to_excel, run when the user presses the export button: the file
\* dialog is cancelled, or the workbook is saved, or saving it raises
export_to_excel ==
    /\ ~DialogOpen
    /\ export_enabled
    /\ IF current_results = NoResults \/ current_results[1] = <<>>
       THEN /\ message' = "No Results"
            /\ UNCHANGED workbook
       ELSE \E outcome \in {"cancelled", "saved", "failed"} :
               /\ workbook' = IF outcome = "saved"
                              THEN Worksheet(current_results[1])
                              ELSE workbook
               /\ message' = IF outcome = "saved" THEN "Export Successful"
                             ELSE IF outcome = "failed" THEN "Export Error"
                             ELSE message
    /\ call' = IF call.have = "shown"
               THEN [call EXCEPT !.have = "exported", !.fn = "export_to_excel"]
               ELSE call
    /\ UNCHANGED <<pdf_path, keywords_table, keywords_file, run, pc, wdoc,
                   wkeywords, queue, progress_dialog, extracted_text,
                   current_results, results_table, export_enabled, observed,
                   cancelAt, work_started>>
    /\ UNCHANGED guiWorkerVars

(***************************************************************************)
(* The session.                                                            *)
(***************************************************************************)
Init ==
    /\ pdf_path = NoPath
    /\ keywords_file \in Files
    /\ keywords_table = LoadKeywords(keywords_file, EmptyTable)
    /\ run = 0
    /\ pc = [r \in Runs |-> "none"]
    /\ wdoc = [r \in Runs |-> <<>>]
    /\ wkeywords = [r \in Runs |-> <<>>]
    /\ total_pages = [r \in Runs |-> Unassigned]
    /\ page_num = [r \in Runs |-> Unassigned]
    /\ text = [r \in Runs |-> <<>>]
    /\ queue = <<>>
    /\ progress_dialog = [exists |-> FALSE, value |-> 0, open |-> FALSE]
    /\ extracted_text = <<>>
    /\ current_results = NoResults
    /\ results_table = [rows |-> <<>>, has_total |-> FALSE, total |-> 0]
    /\ export_enabled = FALSE
    /\ message = None
    /\ calls = [r \in Runs |-> <<>>]
    /\ emitted = [r \in Runs |-> <<>>]
    /\ observed = <<>>
    /\ work_started = 0
    /\ cancelAt = [r \in Runs |-> NotCancelled]
    /\ call = NoCall
    /\ workbook = NoWorkbook

Next ==
    \/ browse_pdf
    \/ calculate_total
    \/ on_ocr_progress
    \/ on_ocr_finished
    \/ on_ocr_error
    \/ on_ocr_canceled
    \/ export_to_excel
    \/ \E r \in Runs : EmitOpening(r)
    \/ \E r \in Runs : OpenDoc(r)
    \/ \E r \in Runs : OpenDocFails(r)
    \/ \E r \in Runs : EmptyDocument(r)
    \/ \E r \in Runs : EmitFound(r)
    \/ \E r \in Runs : EmitConverting(r)
    \/ \E r \in Runs : RenderImage(r)
    \/ \E r \in Runs : RenderNoImage(r)
    \/ \E r \in Runs : RenderFails(r)
    \/ \E r \in Runs : EmitExtracting(r)
    \/ \E r \in Runs : Recognize(r)
    \/ \E r \in Runs : RecognizeFails(r)
    \/ \E r \in Runs : EmitComplete(r)
    \/ \E r \in Runs : EmitFinished(r)
    \/ \E r \in Runs : Return(r)

Spec == Init /\ [][Next]_vars

(***************************************************************************)
(* The methods of the keyword counter called on their own, on arguments    *)
(* drawn from small sets: get_keywords_from_table on a table the user has  *)
(* filled in, count_keywords on a text and a keyword dict, display_results *)
(* on a list of results, export_to_excel on the results displayed.         *)
(***************************************************************************)
\* the number of rows of the keywords table
MaxRows == 2

EmptyCell == <<>>

\* "Apple pie, banana split, apple tart"
AppleText ==
    <<"A", "p", "p", "l", "e", " ", "p", "i", "e", ",", " ", "b", "a",
      "n", "a", "n", "a", " ", "s", "p", "l", "i", "t", ",", " ",
      "a", "p", "p", "l", "e", " ", "t", "a", "r", "t">>

Texts ==
    { <<>>,
      <<"a", "A", "a">>,
      <<"a", "b", "A", "B", " ", "a", "b", NL>>,
      AppleText }

KeywordCells ==
    { EmptyCell,
      <<"a", "b">>,
      <<" ", "A", "B", " ">>,
      <<"v", "a", "l", "u", "e">>,
      <<"c", "o", "s", "t">> }

ValueCells ==
    { EmptyCell,
      <<"3">>,
      <<"-", "5", " ">>,
      <<"a", "b", "c">> }

Tables == [1..MaxRows -> KeywordCells \X ValueCells]

\* {"apple": 10, "banana": -5}
AppleKeywords ==
    << <<(<<"a", "p", "p", "l", "e">>), 10>>,
       <<(<<"b", "a", "n", "a", "n", "a">>), -5>> >>

\* keyword dicts given to count_keywords directly
KeywordMaps ==
    { <<>>,
      AppleKeywords,
      << <<EmptyCell, 3>> >>,
      << <<EmptyCell, -5>>, <<(<<"a", "b">>), 0>> >>,
      << <<(<<"A", "B">>), -5>>, <<(<<"a", "b">>), 0>>, <<(<<"a", "a">>), 3>> >> }

\* result lists given to display_results directly
ResultLists ==
    { <<>>,
      << <<(<<"b">>), 1, 2, 2>>, <<(<<"B">>), 2, -5, -10>>, <<(<<"a">>), 0, 3, 0>> >> }

\* keywords = self.get_keywords_from_table()
get_keywords_from_table ==
    /\ call.have = "table"
    /\ call' = [call EXCEPT !.have = "keywords",
                            !.fn = "get_keywords_from_table",
                            !.keywords = GetKeywordsFromTable(keywords_table)]
    /\ message' = MessageAfterWarning(keywords_table)
    /\ UNCHANGED <<pdf_path, keywords_table, keywords_file, run, pc, wdoc,
                   wkeywords, queue, progress_dialog, extracted_text,
                   current_results, results_table, export_enabled, observed,
                   cancelAt, work_started, workbook>>
    /\ UNCHANGED guiWorkerVars

\* results = self.count_keywords(text, keywords)
count_keywords ==
    /\ call.have = "keywords"
    /\ call' = [call EXCEPT !.have = "results",
                            !.fn = "count_keywords",
                            !.results = CountKeywords(call.text, call.keywords)]
    /\ UNCHANGED <<pdf_path, keywords_table, keywords_file, run, pc, wdoc,
                   wkeywords, queue, progress_dialog, extracted_text,
                   current_results, results_table, export_enabled, message,
                   observed, cancelAt, work_started, workbook>>
    /\ UNCHANGED guiWorkerVars

\* self.display_results(results)
display_results ==
    /\ call.have = "results"
    /\ call' = [call EXCEPT !.have = "shown", !.fn = "display_results"]
    /\ current_results' = <<call.results>>
    /\ results_table' = ResultsTable(call.results)
    /\ export_enabled' = TRUE
    /\ UNCHANGED <<pdf_path, keywords_table, keywords_file, run, pc, wdoc,
                   wkeywords, queue, progress_dialog, extracted_text, message,
                   observed, cancelAt, work_started, workbook>>
    /\ UNCHANGED guiWorkerVars

CounterInit ==
    /\ pdf_path = NoPath
    /\ keywords_file = <<>>
    /\ run = 0
    /\ pc = [r \in Runs |-> "none"]
    /\ wdoc = [r \in Runs |-> <<>>]
    /\ wkeywords = [r \in Runs |-> <<>>]
    /\ total_pages = [r \in Runs |-> Unassigned]
    /\ page_num = [r \in Runs |-> Unassigned]
    /\ text = [r \in Runs |-> <<>>]
    /\ queue = <<>>
    /\ progress_dialog = [exists |-> FALSE, value |-> 0, open |-> FALSE]
    /\ extracted_text = <<>>
    /\ current_results = NoResults
    /\ results_table = [rows |-> <<>>, has_total |-> FALSE, total |-> 0]
    /\ export_enabled = FALSE
    /\ message = None
    /\ calls = [r \in Runs |-> <<>>]
    /\ emitted = [r \in Runs |-> <<>>]
    /\ observed = <<>>
    /\ work_started = 0
    /\ cancelAt = [r \in Runs |-> NotCancelled]
    /\ workbook = NoWorkbook
    /\ \/ /\ keywords_table \in Tables
          /\ \E t \in Texts :
                call = [NoCall EXCEPT !.have = "table", !.text = t]
       \/ /\ keywords_table = EmptyTable
          /\ \E t \in Texts, k \in KeywordMaps :
                call = [NoCall EXCEPT !.have = "keywords", !.text = t, !.keywords = k]
       \/ /\ keywords_table = EmptyTable
          /\ \E rs \in ResultLists :
                call = [NoCall EXCEPT !.have = "results", !.results = rs]

CounterNext ==
    \/ get_keywords_from_table
    \/ count_keywords
    \/ display_results
    \/ export_to_excel

CounterSpec == CounterInit /\ [][CounterNext]_vars

(***************************************************************************)
(* The worker thread of one run on its own, on documents of up to          *)
(* MaxPageCount pages of which at most one has no image and at most one    *)
(* has an image without readable text: the state is the one                *)
(* calculate_total leaves when it has started the first run.               *)
(***************************************************************************)
MaxPageCount == 10

LongDocs ==
    {[i \in 1..n |-> IF i = skip THEN "noimage"
                     ELSE IF i = blank THEN "blank" ELSE "words"] :
        n \in 0..MaxPageCount, skip \in 0..MaxPageCount, blank \in 0..MaxPageCount}

WorkerInit ==
    /\ \E file \in Files, d \in LongDocs :
          LET table == LoadKeywords(file, EmptyTable)
          IN /\ GetKeywordsFromTable(table) # <<>>
             /\ keywords_table = table
             /\ keywords_file = SavedRows(table)
             /\ message = IF InvalidValueWarned(table) THEN "Invalid Value" ELSE None
             /\ pdf_path = <<d>>
             /\ wdoc = [r \in Runs |-> IF r = 1 THEN d ELSE <<>>]
             /\ wkeywords = [r \in Runs |-> IF r = 1 THEN GetKeywordsFromTable(table) ELSE <<>>]
             /\ work_started = Work(d)
    /\ run = 1
    /\ pc = [r \in Runs |-> IF r = 1 THEN "emit0" ELSE "none"]
    /\ total_pages = [r \in Runs |-> Unassigned]
    /\ page_num = [r \in Runs |-> Unassigned]
    /\ text = [r \in Runs |-> <<>>]
    /\ queue = <<>>
    /\ progress_dialog = [exists |-> TRUE, value |-> 0, open |-> TRUE]
    /\ extracted_text = <<>>
    /\ current_results = NoResults
    /\ results_table = [rows |-> <<>>, has_total |-> FALSE, total |-> 0]
    /\ export_enabled = FALSE
    /\ calls = [r \in Runs |-> <<>>]
    /\ emitted = [r \in Runs |-> <<>>]
    /\ observed = <<>>
    /\ cancelAt = [r \in Runs |-> NotCancelled]
    /\ call = NoCall
    /\ workbook = NoWorkbook

WorkerNext ==
    \/ \E r \in Runs : EmitOpening(r)
    \/ \E r \in Runs : OpenDoc(r)
    \/ \E r \in Runs : OpenDocFails(r)
    \/ \E r \in Runs : EmptyDocument(r)
    \/ \E r \in Runs : EmitFound(r)
    \/ \E r \in Runs : EmitConverting(r)
    \/ \E r \in Runs : RenderImage(r)
    \/ \E r \in Runs : RenderNoImage(r)
    \/ \E r \in Runs : RenderFails(r)
    \/ \E r \in Runs : EmitExtracting(r)
    \/ \E r \in Runs : Recognize(r)
    \/ \E r \in Runs : RecognizeFails(r)
    \/ \E r \in Runs : EmitComplete(r)
    \/ \E r \in Runs : EmitFinished(r)
    \/ \E r \in Runs : Return(r)

WorkerSpec == WorkerInit /\ [][WorkerNext]_vars

(***************************************************************************)
(* Reading the histories.                                                  *)
(***************************************************************************)
\* the worker of run r exists and its history is kept
Started(r) == pc[r] # "none"

\* run r is over: its thread has stopped and all its signals are handled
Ended(r) == Started(r) /\ Over(r)

\* the signals of kind sig emitted by the worker of run r, in order
EmittedSig(r, sig) == SelectSeq(emitted[r], LAMBDA e : e.sig = sig)

\* the percentComplete values emitted by the worker of run r, in order
Percents(r) == [i \in 1..Len(EmittedSig(r, "progress")) |-> EmittedSig(r, "progress")[i].percent]

\* the page-level progress events emitted by the worker of run r, in order
PageEvents(r) == SelectSeq(emitted[r], LAMBDA e : e.kind \in {"conv", "ocr"})

\* what the GUI thread has handled of run r, in order
ObservedOf(r) == SelectSeq(observed, LAMBDA e : e.run = r)

\* the terminal outcomes of run r the caller has seen: Text (on_ocr_finished),
\* Failed (on_ocr_error), Cancelled (on_ocr_canceled stopped the worker)
IsOutcome(e) == e.sig \in {"finished", "error"} \/ (e.sig = "canceled" /\ e.kind = "terminated")

Outcomes(r) == SelectSeq(ObservedOf(r), IsOutcome)

\* the worker of run r has emitted finished: the run is successful
Succeeded(r) == EmittedSig(r, "finished") # <<>>

\* run() of run r has run to its end or to a return
Completed(r) == pc[r] \in {"returning", "done"}

(***************************************************************************)
(* Claims.                                                                 *)
(***************************************************************************)

\* C1: once the caller has cancelled a run (on_ocr_canceled), the run makes
\* no further render or recognize call, and neither a Text result
\* (on_ocr_finished) nor a Failed result (on_ocr_error) of that run is
\* delivered to the caller after the cancellation.
C1_NothingDeliveredAfterCancel ==
    /\ \A r \in Runs :
          cancelAt[r].requested => Len(calls[r]) = cancelAt[r].calls
    /\ \A i, j \in 1..Len(observed) :
          (/\ i < j
           /\ observed[i].sig = "canceled"
           /\ observed[j].run = observed[i].run)
          => observed[j].sig \notin {"finished", "error"}

\* C2: every run has exactly one terminal outcome, Text, Failed or
\* Cancelled: never two, and one once the run is over.
C2_ExactlyOneOutcome ==
    \A r \in Runs :
        /\ Len(Outcomes(r)) <= 1
        /\ Ended(r) => Len(Outcomes(r)) = 1

\* C3: in a successful run, pages skipped or not, the percentComplete
\* values emitted are non-decreasing and the last one is 100.
C3_ProgressMonotone ==
    \A r \in Runs :
        Succeeded(r) =>
            /\ \A i \in 1..(Len(Percents(r)) - 1) : Percents(r)[i] <= Percents(r)[i + 1]
            /\ Percents(r)[Len(Percents(r))] = 100

\* a successful run over two pages of which the first was skipped
C3_Witness ==
    \E r \in Runs :
        /\ Succeeded(r)
        /\ total_pages[r] = 2
        /\ calls[r] = << <<"render", 1, "none">>, <<"render", 2, "image">>,
                        <<"recognize", 2, "text">> >>

\* C4: if the run is cancelled before its first render call, the run ends
\* as Cancelled (and as nothing else) and the recognizer is never called.
C4_CancelBeforeFirstPage ==
    \A r \in Runs :
        (cancelAt[r].requested /\ cancelAt[r].calls = 0) =>
            /\ \A i \in 1..Len(calls[r]) : calls[r][i][1] # "recognize"
            /\ Ended(r) => (Len(Outcomes(r)) = 1 /\ Outcomes(r)[1].sig = "canceled")

\* the calls of run r raised no error
NoCallFailed(r) == \A i \in 1..Len(calls[r]) : calls[r][i][3] # "error"

\* C5: when the renderer or the recognizer raises an error on page p, that
\* call is the last call of the run (no later page, no retry), the run
\* emits error and neither 100% nor finished, and the caller gets Failed.
C5_FailureIsFatal ==
    \A r \in Runs :
        \A i \in 1..Len(calls[r]) :
            calls[r][i][3] = "error" =>
                /\ i = Len(calls[r])
                /\ ~Succeeded(r)
                /\ \A k \in 1..Len(Percents(r)) : Percents(r)[k] # 100
                /\ Len(EmittedSig(r, "error")) = 1
                /\ emitted[r][Len(emitted[r])] = ErrorEvent(r, "OCR Error")
                /\ \A k \in 1..Len(observed) :
                      observed[k].run = r => observed[k].sig # "finished"
                /\ Ended(r) => \E k \in 1..Len(Outcomes(r)) : Outcomes(r)[k].sig = "error"

\* the recognizer failed on page 2 after page 1 had given text, and the
\* caller has got the failure
C5_Witness ==
    \E r \in Runs :
        /\ calls[r] = << <<"render", 1, "image">>, <<"recognize", 1, "text">>,
                        <<"render", 2, "image">>, <<"recognize", 2, "error">> >>
        /\ text[r] # <<>>
        /\ Ended(r)

\* C6: a page for which the renderer returns no image is skipped: the
\* recognizer is not called for it, the next call is the render of the next
\* page, and a run without failing call still ends with finished (Text).
C6_SkippedPage ==
    \A r \in Runs :
        \A i \in 1..Len(calls[r]) :
            calls[r][i][3] = "none" =>
                /\ \A j \in 1..Len(calls[r]) :
                      ~(calls[r][j][1] = "recognize" /\ calls[r][j][2] = calls[r][i][2])
                /\ i < Len(calls[r]) =>
                      (/\ calls[r][i + 1][1] = "render"
                       /\ calls[r][i + 1][2] = calls[r][i][2] + 1)
                /\ (Completed(r) /\ NoCallFailed(r)) =>
                      (Succeeded(r) /\ EmittedSig(r, "error") = <<>>)
                /\ (Ended(r) /\ pc[r] = "done" /\ NoCallFailed(r)) =>
                      \E k \in 1..Len(Outcomes(r)) : Outcomes(r)[k].sig = "finished"

\* a run over two pages, the first skipped, has delivered its Text
C6_Witness ==
    \E r \in Runs :
        /\ calls[r] = << <<"render", 1, "none">>, <<"render", 2, "image">>,
                        <<"recognize", 2, "text">> >>
        /\ Ended(r)
        /\ pc[r] = "done"
        /\ \E k \in 1..Len(observed) :
              /\ observed[k].run = r
              /\ observed[k].sig = "finished"
              /\ observed[k].text = PageText("words") \o <<NL>>

\* C7: when the document reports no pages, the run fails with "No pages
\* found in PDF": no render or recognize call, no finished, no progress
\* above the opening phase.
C7_EmptyDocument ==
    \A r \in Runs :
        total_pages[r] = 0 =>
            /\ pc[r] \in {"check", "returning", "done", "terminated"}
            /\ calls[r] = <<>>
            /\ ~Succeeded(r)
            /\ \A k \in 1..Len(Percents(r)) : Percents(r)[k] <= 5
            /\ Completed(r) =>
                  emitted[r][Len(emitted[r])] = ErrorEvent(r, "No pages found in PDF")
            /\ (Ended(r) /\ pc[r] = "done") =>
                  \E k \in 1..Len(Outcomes(r)) :
                      Outcomes(r)[k] = ErrorEvent(r, "No pages found in PDF")

\* the run on a document without pages is over and the caller has the failure
C7_Witness ==
    \E r \in Runs :
        /\ total_pages[r] = 0
        /\ pc[r] = "done"
        /\ Ended(r)
        /\ Outcomes(r) = <<ErrorEvent(r, "No pages found in PDF")>>

\* C8: the page-level progress events of a run come in page order, the
\* conversion event of a page before its recognition event, and so do the
\* render and recognize calls: all of page p before any of page p + 1.
C8_PageOrder ==
    \A r \in Runs :
        /\ \A i, j \in 1..Len(PageEvents(r)) :
              i < j =>
                  \/ PageEvents(r)[i].page < PageEvents(r)[j].page
                  \/ /\ PageEvents(r)[i].page = PageEvents(r)[j].page
                     /\ PageEvents(r)[i].kind = "conv"
                     /\ PageEvents(r)[j].kind = "ocr"
        /\ \A i, j \in 1..Len(calls[r]) :
              i < j =>
                  \/ calls[r][i][2] < calls[r][j][2]
                  \/ /\ calls[r][i][2] = calls[r][j][2]
                     /\ calls[r][i][1] = "render"
                     /\ calls[r][j][1] = "recognize"

\* both pages of a two-page document have been rendered and recognized
C8_Witness ==
    \E r \in Runs :
        /\ Len(PageEvents(r)) = 4
        /\ Len(calls[r]) = 4
        /\ calls[r][4] = <<"recognize", 2, "text">>

\* C9: the terminal result of a run is the last event the caller observes
\* for it: once the caller has handled finished or error of a run, or has
\* cancelled it, on_ocr_progress is not run for a progress event of that run.
C9_TerminalIsLast ==
    \A i, j \in 1..Len(observed) :
        (/\ i < j
         /\ observed[i].sig \in {"finished", "error", "canceled"}
         /\ observed[j].run = observed[i].run)
        => observed[j].sig # "progress"

\* C10: once cancellation of a run is requested, its worker is in the
\* terminal cancelled state and has started no call after the request.
C10_CancelStopsWorker ==
    \A r \in Runs :
        cancelAt[r].requested =>
            /\ pc[r] = "terminated"
            /\ Len(calls[r]) = cancelAt[r].calls

\* the worker of run r is in flight: started, not terminated, and it has not
\* yet emitted finished or error
Active(r) == pc[r] \notin {"none", "returning", "done", "terminated"}

\* C11: at most one run is active at any time, and the action that starts a
\* run (calculate_total, enabled while no progress dialog is open) stays
\* disabled until the completion, failure or cancellation of the run last
\* started has been observed.
C11_OneActiveRun ==
    /\ Cardinality({r \in Runs : Active(r)}) <= 1
    /\ (run >= 1 /\ ~DialogOpen) =>
          \E k \in 1..Len(observed) :
              /\ observed[k].run = run
              /\ observed[k].sig \in {"finished", "error", "canceled"}

\* the text of document d: the text of every page that has an image,
\* followed by a newline, in page order
RECURSIVE DocText(_)
DocText(d) ==
    IF d = <<>> THEN <<>>
    ELSE DocText(SubSeq(d, 1, Len(d) - 1))
         \o (IF d[Len(d)] = "noimage" THEN <<>> ELSE PageText(d[Len(d)]) \o <<NL>>)

\* C12: a run started after a cancelled or failed run is not touched by it:
\* the Text a run emits is the text of its own document, whatever ran
\* before, and a Text of an earlier run is never counted and put into the
\* results (on_ocr_finished with a text that is not blank) once a later run
\* has been started.
C12_RunsIndependent ==
    /\ [](\A r \in Runs :
            Succeeded(r) => EmittedSig(r, "finished")[1].text = DocText(wdoc[r]))
    /\ [][(/\ queue # <<>>
           /\ queue' = Tail(queue)
           /\ Head(queue).sig = "finished"
           /\ Strip(Head(queue).text) # <<>>)
          => Head(queue).run = run]_vars

\* count_keywords has just returned call.results for call.text and call.keywords
Counted == call.fn = "count_keywords"

\* a and b are the same character, or the two cases of one letter
SameLetter(a, b) == a = b \/ \E i \in 1..Len(Letters) : {a, b} = {Letters[i], Capitals[i]}

\* the places of t where k occurs as a substring, case ignored
Occurrences(t, k) ==
    {p \in 1..(Len(t) - Len(k) + 1) :
        \A j \in 1..Len(k) : SameLetter(t[p + j - 1], k[j])}

\* the occurrences a left-to-right scan without overlap takes: an occurrence
\* is taken exactly when no occurrence taken before it reaches into it
Scanned(t, k) ==
    CHOOSE P \in SUBSET Occurrences(t, k) :
        \A p \in Occurrences(t, k) :
            p \in P <=> \A q \in P : q < p => q + Len(k) <= p

C14_OneRecordPerKeyword ==
    Counted =>
        /\ Len(call.results) = Len(call.keywords)
        /\ \A i \in 1..Len(call.results) :
              /\ call.results[i][1] = call.keywords[i][1]
              /\ call.results[i][3] = call.keywords[i][2]
              /\ call.results[i][2] >= 0
              /\ call.results[i][4] = call.results[i][2] * call.keywords[i][2]
        /\ \A i, j \in 1..Len(call.results) :
              i # j => call.results[i][1] # call.results[j][1]

\* two keywords that occur in the text, one with a negative and one with a
\* zero value
C14_Witness ==
    /\ Counted
    /\ \E i, j \in 1..Len(call.results) :
          /\ call.results[i][2] > 0 /\ call.results[i][3] < 0 /\ call.results[i][4] < 0
          /\ call.results[j][2] > 0 /\ call.results[j][3] = 0 /\ call.results[j][4] = 0

\* display_results has just shown call.results
Displayed == call.fn = "display_results"

\* the sum of the subtotal fields of the first n records of rs
RECURSIVE SumOfSubtotals(_, _)
SumOfSubtotals(rs, n) == IF n = 0 THEN 0 ELSE SumOfSubtotals(rs, n - 1) + rs[n][4]

\* C15: the grand total display_results shows is the sum of the subtotals of
\* the records, those given and those shown; for an empty list the total is
\* 0 (the total row is still shown) and no record row is shown.
C15_GrandTotal ==
    Displayed =>
        /\ results_table.has_total
        /\ results_table.total = SumOfSubtotals(call.results, Len(call.results))
        /\ results_table.total = SumOfSubtotals(results_table.rows, Len(results_table.rows))
        /\ call.results = <<>> => (results_table.total = 0 /\ results_table.rows = <<>>)

\* three records with the subtotals 2, -10 and 0 have been shown with the
\* total -8
C15_Witness ==
    /\ Displayed
    /\ Len(call.results) = 3
    /\ call.results[2][4] = -10
    /\ results_table.total = -8

TableRead == call.fn = "get_keywords_from_table"

\* the text of a cell without the whitespace around it
Trimmed(cell) ==
    CHOOSE u \in {SubSeq(cell, a, b) : a \in 1..(Len(cell) + 1), b \in 0..Len(cell)} :
        /\ \E a \in 1..(Len(cell) + 1), b \in 0..Len(cell) :
              /\ u = SubSeq(cell, a, b)
              /\ \A i \in 1..Len(cell) : (i < a \/ i > b) => cell[i] \in Whitespace
        /\ u # <<>> => (u[1] \notin Whitespace /\ u[Len(u)] \notin Whitespace)

\* the decimal text of an integer of one digit
DecimalText(n) == IF n < 0 THEN <<"-", Digits[1 - n]>> ELSE <<Digits[n + 1]>>

\* the integers (of one digit) that the text of a value cell stands for: one
\* or none
IntegersOf(cell) == LET u == Trimmed(cell) IN {n \in -9..9 : DecimalText(n) = u}

\* C17: the keyword dict holds exactly the entries of the table that have a
\* keyword and an integer value (the last one of several with the same
\* keyword), each with its value; an entry whose value is not an integer is
\* skipped with the "Invalid Value" warning and takes nothing else with it,
\* so the dict is empty only when no valid entry is left;
\* {"value": "abc", "cost": "3"} gives exactly {cost: 3}.
C17_InvalidValueSkipped ==
    TableRead =>
        LET table == keywords_table
            keywords == call.keywords
            keyword == [i \in 1..Len(table) |-> Trimmed(table[i][1])]
            value == [i \in 1..Len(table) |-> Trimmed(table[i][2])]
            integers == [i \in 1..Len(table) |-> IntegersOf(table[i][2])]
            valid == {i \in 1..Len(table) : keyword[i] # <<>> /\ integers[i] # {}}
            invalid == {i \in 1..Len(table) :
                           keyword[i] # <<>> /\ value[i] # <<>> /\ integers[i] = {}}
        IN /\ \A i \in valid :
                 (\A j \in valid : j > i => keyword[j] # keyword[i])
                 => \E k \in 1..Len(keywords) :
                        keywords[k][1] = keyword[i] /\ keywords[k][2] \in integers[i]
           /\ \A k \in 1..Len(keywords) :
                 \E i \in valid :
                     keywords[k][1] = keyword[i] /\ keywords[k][2] \in integers[i]
           /\ \A k, l \in 1..Len(keywords) : k # l => keywords[k][1] # keywords[l][1]
           /\ invalid # {} => message = "Invalid Value"
           /\ (/\ table[1] = <<(<<"v", "a", "l", "u", "e">>), (<<"a", "b", "c">>)>>
               /\ table[2] = <<(<<"c", "o", "s", "t">>), (<<"3">>)>>
               /\ \A i \in 3..Len(table) : table[i] = <<EmptyCell, EmptyCell>>)
              => keywords = << <<(<<"c", "o", "s", "t">>), 3>> >>

\* the table {"value": "abc", "cost": "3"} has given {cost: 3}, with the warning
C17_Witness ==
    /\ TableRead
    /\ keywords_table[1] = <<(<<"v", "a", "l", "u", "e">>), (<<"a", "b", "c">>)>>
    /\ keywords_table[2] = <<(<<"c", "o", "s", "t">>), (<<"3">>)>>
    /\ call.keywords = << <<(<<"c", "o", "s", "t">>), 3>> >>
    /\ message = "Invalid Value"

\* C18: for the empty keyword count_keywords gives count 0 and subtotal 0.
C18_EmptyKeywordZero ==
    Counted =>
        \A i \in 1..Len(call.keywords) :
            call.keywords[i][1] = <<>> =>
                (call.results[i][2] = 0 /\ call.results[i][4] = 0)

\* the progress events of the given kind emitted by the worker of run r
EventsOfKind(r, kind) == SelectSeq(emitted[r], LAMBDA e : e.kind = kind)

C20_RecognitionPercent ==
    \A r \in Runs :
        \A i \in 1..Len(EventsOfKind(r, "ocr")) :
            LET e == EventsOfKind(r, "ocr")[i]
            IN e.percent = 5 + ((90 * e.page) \div total_pages[r])

\* the render calls of run r, one per page the loop has reached
RenderCalls(r) == SelectSeq(calls[r], LAMBDA c : c[1] = "render")

\* C21: every progress event a run emits, whatever the page count and the
\* page, carries a percentComplete in 0..100, and 100 is carried only by the
\* terminal success event: the one emitted when every page has been gone
\* through without a failure, after which the run emits nothing but finished.
C21_PercentRange ==
    \A r \in Runs :
        \A i \in 1..Len(emitted[r]) :
            LET e == emitted[r][i]
            IN e.sig = "progress" =>
                  /\ e.percent \in 0..100
                  /\ e.percent = 100 =>
                        /\ e.kind = "complete"
                        /\ Len(RenderCalls(r)) = total_pages[r]
                        /\ NoCallFailed(r)
                        /\ \A j \in (i + 1)..Len(emitted[r]) :
                              emitted[r][j].sig = "finished"

\* a successful run over at least two pages: the recognition event of the
\* last page carries 95 and the event after it 100
C21_Witness ==
    /\ Succeeded(1)
    /\ total_pages[1] >= 2
    /\ \E i \in 1..(Len(emitted[1]) - 1) :
          /\ emitted[1][i].kind = "ocr"
          /\ emitted[1][i].page = total_pages[1]
          /\ emitted[1][i].percent = 95
          /\ emitted[1][i + 1].percent = 100

\* the renderer returned an image for page p of run r
HasImage(r, p) == \E i \in 1..Len(calls[r]) : calls[r][i] = <<"render", p, "image">>

\* how often the recognized text of page p was appended in run r
Contributions(r, p) ==
    Cardinality({i \in 1..Len(calls[r]) : calls[r][i] = <<"recognize", p, "text">>})

\* the recognized text, each followed by one newline, of the pages 1..n of
\* run r for which the renderer returned an image, in page order
RECURSIVE TextOfPages(_, _)
TextOfPages(r, n) ==
    IF n = 0 THEN <<>>
    ELSE TextOfPages(r, n - 1)
         \o (IF HasImage(r, n) THEN PageText(wdoc[r][n]) \o <<NL>> ELSE <<>>)

\* C22: the Text of a successful run is the concatenation, in increasing
\* page order, of the recognized text followed by one newline of exactly the
\* pages for which the renderer returned an image: a skipped page
\* contributes nothing and every other page exactly once.
C22_TextIsConcatenation ==
    \A r \in Runs :
        Succeeded(r) =>
            /\ EmittedSig(r, "finished")[1].text = TextOfPages(r, total_pages[r])
            /\ \A p \in 1..total_pages[r] :
                  Contributions(r, p) = IF HasImage(r, p) THEN 1 ELSE 0

\* a successful run over a page with words, a skipped page and a blank page
C22_Witness ==
    /\ Succeeded(1)
    /\ wdoc[1] = <<"words", "noimage", "blank">>
    /\ EmittedSig(1, "finished")[1].text = <<"a", "B", " ", NL, " ", NL>>

\* export_to_excel has just saved the worksheet of the results displayed
Exported == call.fn = "export_to_excel" /\ workbook # NoWorkbook

\* how many times row x occurs in the rows rs
TimesIn(x, rs) == Cardinality({i \in 1..Len(rs) : rs[i] = x})

CancelledRun(r) ==
    \E i \in 1..Len(observed) :
        /\ observed[i].run = r
        /\ observed[i].sig = "canceled"
        /\ observed[i].kind = "terminated"

\* the worker of run r has emitted error
FailedRun(r) == EmittedSig(r, "error") # <<>>

\* C24: a run that ends in failure or cancellation leaves current_results
\* and the enabled state of the export as they are: they change only when
\* on_ocr_finished handles the Text of a run that has neither failed nor
\* been cancelled.
C24_ResultsKeptAfterFailureOrCancel ==
    [][(current_results' # current_results \/ export_enabled' # export_enabled)
       => /\ queue # <<>>
          /\ queue' = Tail(queue)
          /\ Head(queue).sig = "finished"
          /\ ~CancelledRun(Head(queue).run)
          /\ ~FailedRun(Head(queue).run)]_vars

\* a worker is created and started in this step
WorkerStarted == run' # run \/ \E r \in Runs : pc[r] = "none" /\ pc'[r] # "none"

\* C25: calculate_total starts a run only when a document is selected and
\* the keywords read from the table are not empty; when one of the two is
\* missing no worker is created or started and the keywords file is left
\* as it is, and the step that shows the warning leaves current_results and
\* what is shown of them as they are.
C25_StartOnlyWithPathAndKeywords ==
    [][/\ (WorkerStarted \/ keywords_file' # keywords_file)
          => /\ pdf_path # NoPath
             /\ GetKeywordsFromTable(keywords_table) # <<>>
       /\ (message' # message /\ message' \in {"No PDF Selected", "No Keywords"})
          => /\ ~WorkerStarted
             /\ UNCHANGED <<keywords_file, current_results, results_table,
                            export_enabled, queue, progress_dialog>>]_vars

\* calculate_total has refused to start a run on a selected document: the
\* table has a filled row, but no row with an integer value, and the file
\* is not what saving the table would have written
C25_Witness ==
    /\ message = "No Keywords"
    /\ pdf_path # NoPath
    /\ run = 0
    /\ \E i \in 1..Len(keywords_table) : RowFilled(keywords_table[i])
    /\ keywords_file # SavedRows(keywords_table)

\* the text t has no character that is not whitespace
Blank(t) == \A i \in 1..Len(t) : t[i] \in Whitespace

\* the step has put its event at the end of the history
Recorded == Len(observed') = Len(observed) + 1

\* C26: when on_ocr_finished handles a Text that is empty or has only
\* whitespace, count_keywords is not called and neither current_results nor
\* what is displayed (results, extracted text, export button) is replaced;
\* a Text with a character that is not whitespace is counted.
C26_BlankTextNotCounted ==
    [][(queue # <<>> /\ queue' = Tail(queue) /\ Head(queue).sig = "finished")
       => IF Blank(Head(queue).text)
          THEN /\ UNCHANGED <<current_results, results_table, export_enabled,
                              extracted_text>>
               /\ Recorded => observed'[Len(observed')].kind = "returned"
          ELSE /\ current_results' # NoResults
               /\ Recorded => observed'[Len(observed')].kind = "counted"]_vars

\* on_ocr_finished has handled the Text of a document whose only page is
\* blank: a text of whitespace only, "No Text Found", and no results
C26_Witness ==
    /\ message = "No Text Found"
    /\ current_results = NoResults
    /\ ~export_enabled
    /\ \E i \in 1..Len(observed) :
          /\ observed[i].sig = "finished"
          /\ observed[i].kind = "returned"
          /\ observed[i].text = <<" ", NL>>

====
